---------------------------- MODULE Spec2Model ----------------------------
(***************************************************************************)
(* pycam.py: an MJPEG streaming server for a Pi camera.  One handler       *)
(* thread per HTTP request (socketserver.ThreadingMixIn) runs do_GET; the  *)
(* handlers share the server object's active_stream / last_stream_time,    *)
(* the camera (picam2) and the frame buffer (output).  There is no lock    *)
(* around the server's fields, so every statement of a handler is a step   *)
(* of its own and the steps of different handlers interleave freely.       *)
(*                                                                         *)
(* Time is counted in minutes (streaming_time is in minutes).  A frame is  *)
(* represented by its publish number: frame n is the n-th buffer the       *)
(* encoder wrote to the output; 0 stands for None.  Frame(n) is its bytes. *)
(*                                                                         *)
(* The paths "/", "/index" and the 404 branch of do_GET touch none of the  *)
(* state below (they are stuttering steps) and have no action.             *)
(*                                                                         *)
(* Spec is the server with NThreads requests of any kind in progress at    *)
(* once.  SpecUpdates is the server receiving only /stream and /update     *)
(* requests, with NUpdaters further threads for the /update requests: its  *)
(* behaviours are behaviours of the server with NThreads + NUpdaters       *)
(* threads.                                                                *)
(***************************************************************************)
EXTENDS Integers, FiniteSets, Sequences, TLC

\* ---- bounds of the model ------------------------------------------------
NThreads == 2     \* handler threads that can be serving a request at once
NUpdaters == 1    \* further threads, serving /update requests in SpecUpdates
MaxTime == 2      \* the clock stops advancing here
MaxFrames == 2    \* the encoder publishes at most this many frames

\* ---- program constants --------------------------------------------------
streaming_time == 1

\* ThreadingMixIn starts a thread per request.  Handlers serve any path;
\* Updaters take requests only in SpecUpdates, and only /update requests.
Threads == 1..(NThreads + NUpdaters)
Handlers == 1..NThreads
Updaters == Threads \ Handlers

Paths == {"/cap", "/update", "/stop", "/stream"}

\* statements of StreamingHandler.stream's loop (lines 146-157)
LoopPcs == {"loop_check", "waiting", "woken", "write", "write_body",
            "active_check"}

\* statements of the decorator's post-operation check (lines 106-111)
PostPcs == {"post_active", "post_time", "post_stop", "post_clear"}

\* ROTATION = 0: rotation_header stays bytes()
rotation_header == <<>>

\* the n-th buffer the MJPEG encoder hands to output.write: the JPEG SOI
\* marker ff d8 and a payload whose length differs from buffer to buffer
Buf(n) == <<255, 216>> \o [i \in 1..n |-> n]

\* StreamingOutput.write, line 212: buf[:2] + rotation_header + buf[2:];
\* frame 0 is the None the buffer holds before the first write
Frame(n) ==
    IF n = 0 THEN <<>>
             ELSE SubSeq(Buf(n), 1, 2) \o rotation_header
                    \o SubSeq(Buf(n), 3, Len(Buf(n)))

\* len(frame) of line 152, frame a local of stream holding frame n
len(n) == Len(Frame(n))

\* one write to wfile: what it is and the bytes or the number it carries
Chunk(k, v) == [kind |-> k, value |-> v]

ChunkKinds ==
    {"--FRAME", "Content-Type", "Content-Length", "blank", "frame", "CRLF"}

VARIABLES
    active_stream,     \* server.active_stream
    last_stream_time,  \* server.last_stream_time (the shared deadline)
    now,               \* datetime.now()
    recording,         \* picam2 is recording (frames flow to output)
    output_frame,      \* output.frame
    pc,                \* per thread: the statement it executes next
    path,              \* per thread: self.path of the request it serves
    current_time,      \* per thread: local current_time of update_streaming_time
    frame,             \* per thread: local frame of stream
    exit,              \* per thread: how its stream loop ended
    lastHw,            \* history: the last hardware call and the request issuing it
    stopSeen,          \* history, per session: frame-wait returns since a /stop
    shadow,            \* history: the deadline had no idle /update written it
    promise,           \* history, per session: deadline set by an /update
    part,              \* history, per session: what this loop iteration wrote to wfile
    wokenBy            \* history, per session: the publish that ended its frame wait

vars == <<active_stream, last_stream_time, now, recording, output_frame,
          pc, path, current_time, frame, exit, lastHw, stopSeen, shadow,
          promise, part, wokenBy>>

shared == <<active_stream, last_stream_time, now, recording, output_frame>>
locals == <<path, current_time, frame, exit>>
history == <<lastHw, stopSeen, shadow, promise, part, wokenBy>>

TypeOK ==
    /\ active_stream \in BOOLEAN
    /\ last_stream_time \in 0..(MaxTime + streaming_time)
    /\ now \in 0..MaxTime
    /\ recording \in BOOLEAN
    /\ output_frame \in 0..MaxFrames
    /\ pc \in [Threads -> {"idle", "wrap_check", "start_cam", "set_active",
                           "read_time", "write_time", "capture", "stop_check",
                           "stop_clear", "stop_cam"} \cup LoopPcs \cup PostPcs]
    /\ path \in [Threads -> Paths \cup {"none"}]
    /\ current_time \in [Threads -> 0..MaxTime]
    /\ frame \in [Threads -> 0..MaxFrames]
    /\ exit \in [Threads -> {"none", "expired", "stopped", "error"}]
    /\ lastHw \in [call : {"none", "start", "stop"}, by : Paths \cup {"none"}]
    /\ stopSeen \in [Threads -> 0..3]
    /\ shadow \in 0..(MaxTime + streaming_time)
    /\ promise \in [Threads -> 0..(MaxTime + streaming_time)]
    /\ \A t \in Threads : \A i \in 1..Len(part[t]) :
         /\ part[t][i].kind \in ChunkKinds
         /\ part[t][i].value \in Seq(0..255)
    /\ wokenBy \in [Threads -> 0..MaxFrames]

\* StreamingServer's class attributes; last_stream_time = datetime.now()
Init ==
    /\ active_stream = FALSE
    /\ last_stream_time = 0
    /\ now = 0
    /\ recording = FALSE
    /\ output_frame = 0
    /\ pc = [t \in Threads |-> "idle"]
    /\ path = [t \in Threads |-> "none"]
    /\ current_time = [t \in Threads |-> 0]
    /\ frame = [t \in Threads |-> 0]
    /\ exit = [t \in Threads |-> "none"]
    /\ lastHw = [call |-> "none", by |-> "none"]
    /\ stopSeen = [t \in Threads |-> 0]
    /\ shadow = 0
    /\ promise = [t \in Threads |-> 0]
    /\ part = [t \in Threads |-> <<>>]
    /\ wokenBy = [t \in Threads |-> 0]

\* a stream session inside its loop
Streaming(t) == path[t] = "/stream" /\ pc[t] \in LoopPcs

\* the handler returns: its thread ends and its locals are gone
Return(t) ==
    /\ pc' = [pc EXCEPT ![t] = "idle"]
    /\ path' = [path EXCEPT ![t] = "none"]
    /\ current_time' = [current_time EXCEPT ![t] = 0]
    /\ frame' = [frame EXCEPT ![t] = 0]
    /\ exit' = [exit EXCEPT ![t] = "none"]
    /\ stopSeen' = [stopSeen EXCEPT ![t] = 0]
    /\ promise' = [promise EXCEPT ![t] = 0]
    /\ part' = [part EXCEPT ![t] = <<>>]
    /\ wokenBy' = [wokenBy EXCEPT ![t] = 0]

\* move thread t to statement p, its locals unchanged
Goto(t, p) ==
    /\ pc' = [pc EXCEPT ![t] = p]
    /\ UNCHANGED <<path, current_time, frame, stopSeen, promise, part,
                   wokenBy>>

\* start_cam(): start_recording either starts the encoder or raises the
\* RuntimeError that start_cam catches and logs
start_cam(t, ok) ==
    /\ recording' = (ok \/ recording)
    /\ lastHw' = [call |-> "start", by |-> path[t]]

\* stop_cam(): stop_recording; the RuntimeError of a camera that is not
\* recording is caught and logged, and the camera is not recording afterwards
stop_cam(t) ==
    /\ recording' = FALSE
    /\ lastHw' = [call |-> "stop", by |-> path[t]]

\* do_GET: dispatch on self.path
do_GET(t, p) ==
    /\ pc[t] = "idle"
    /\ pc' = [pc EXCEPT ![t] =
                CASE p \in {"/cap", "/stream"} -> "wrap_check"
                  [] p = "/update" -> "read_time"
                  [] p = "/stop" -> "stop_check"]
    /\ path' = [path EXCEPT ![t] = p]
    /\ UNCHANGED <<shared, current_time, frame, exit, history>>

\* the wrapped function's first statement
Body(t) == IF path[t] = "/stream" THEN "set_active" ELSE "capture"

\* wrap, line 102: if not self.server.active_stream
WrapCheck(t) ==
    /\ pc[t] = "wrap_check"
    /\ Goto(t, IF ~active_stream THEN "start_cam" ELSE Body(t))
    /\ UNCHANGED <<shared, exit, lastHw, shadow>>

\* wrap, line 103: start_cam()
WrapStart(t) ==
    /\ pc[t] = "start_cam"
    /\ \E ok \in BOOLEAN : start_cam(t, ok)
    /\ Goto(t, Body(t))
    /\ UNCHANGED <<active_stream, last_stream_time, now, output_frame, exit,
                   shadow>>

\* stream, line 142: self.server.active_stream = True
SetActive(t) ==
    /\ pc[t] = "set_active"
    /\ active_stream' = TRUE
    /\ Goto(t, "read_time")
    /\ UNCHANGED <<last_stream_time, now, recording, output_frame, exit,
                   lastHw, shadow>>

\* update_streaming_time, line 125: current_time = datetime.now()
ReadTime(t) ==
    /\ pc[t] = "read_time"
    /\ current_time' = [current_time EXCEPT ![t] = now]
    /\ pc' = [pc EXCEPT ![t] = "write_time"]
    /\ UNCHANGED <<shared, path, frame, exit, history>>

\* line 126: current_end = current_time + timedelta(minutes=streaming_time)
current_end(t) == current_time[t] + streaming_time

\* an /update that finds no stream active and no other request in progress
IdleUpdate(t) ==
    /\ path[t] = "/update"
    /\ ~active_stream
    /\ \A u \in Threads \ {t} : pc[u] = "idle"

\* update_streaming_time, line 127: self.server.last_stream_time = current_end
\* called by stream (line 143), which goes on to its loop, and by do_GET for
\* /update (line 185), which returns
WriteTime(t) ==
    /\ pc[t] = "write_time"
    /\ last_stream_time' = current_end(t)
    /\ shadow' = IF IdleUpdate(t) THEN shadow ELSE current_end(t)
    /\ IF path[t] = "/stream"
         THEN /\ Goto(t, "loop_check")
              /\ UNCHANGED exit
         ELSE /\ pc' = [pc EXCEPT ![t] = "idle"]
              /\ path' = [path EXCEPT ![t] = "none"]
              /\ current_time' = [current_time EXCEPT ![t] = 0]
              /\ promise' = [u \in Threads |->
                               IF active_stream /\ Streaming(u)
                                    /\ current_end(t) > promise[u]
                                 THEN current_end(t) ELSE promise[u]]
              /\ UNCHANGED <<frame, exit, stopSeen, part, wokenBy>>
    /\ UNCHANGED <<active_stream, now, recording, output_frame, lastHw>>

\* the loop without the wait: the session goes straight on to read
\* output.frame, whether or not a frame was published since its last read
LoopCheck_nowait(t) ==
    /\ pc[t] = "loop_check"
    /\ IF now < last_stream_time
         THEN /\ Goto(t, "woken")
              /\ UNCHANGED exit
         ELSE /\ Goto(t, "post_active")
              /\ exit' = [exit EXCEPT ![t] = "expired"]
    /\ UNCHANGED <<shared, lastHw, shadow>>

\* stream, lines 146-148: while datetime.now() < last_stream_time, then
\* enter output.condition and wait
LoopCheck(t) ==
    /\ pc[t] = "loop_check"
    /\ IF now < last_stream_time
         THEN /\ Goto(t, "waiting")
              /\ UNCHANGED exit
         ELSE /\ Goto(t, "post_active")
              /\ exit' = [exit EXCEPT ![t] = "expired"]
    /\ UNCHANGED <<shared, lastHw, shadow>>

\* notify() in place of notify_all(): one waiter is woken
write_notify(pcs) ==
    IF \E t \in Threads : pcs[t] = "waiting"
      THEN LET w == CHOOSE t \in Threads : pcs[t] = "waiting"
           IN  [pcs EXCEPT ![w] = "woken"]
      ELSE pcs

\* StreamingOutput.write, line 213: notify_all() wakes every thread blocked
\* in output.condition.wait()
write(pcs) == [t \in Threads |-> IF pcs[t] = "waiting" THEN "woken" ELSE pcs[t]]

\* the frame stored without notify_all: no waiter is woken
Publish_nonotify ==
    /\ recording
    /\ output_frame < MaxFrames
    /\ output_frame' = output_frame + 1
    /\ UNCHANGED <<active_stream, last_stream_time, now, recording, pc, locals,
                   history>>

\* StreamingOutput.write: under the condition's lock, store the frame and
\* notify_all.  The encoder calls it only while the camera is recording.
Publish ==
    /\ recording
    /\ output_frame < MaxFrames
    /\ output_frame' = output_frame + 1
    /\ pc' = write(pc)
    /\ wokenBy' = [t \in Threads |->
                     IF pc[t] = "waiting" /\ pc'[t] = "woken"
                       THEN output_frame' ELSE wokenBy[t]]
    /\ UNCHANGED <<active_stream, last_stream_time, now, recording, locals,
                   lastHw, stopSeen, shadow, promise, part>>

\* stream, lines 148-149: wait() returns with the lock held; frame = output.frame
WaitReturn(t) ==
    /\ pc[t] = "woken"
    /\ frame' = [frame EXCEPT ![t] = output_frame]
    /\ pc' = [pc EXCEPT ![t] = "write"]
    /\ stopSeen' = [stopSeen EXCEPT ![t] =
                      IF @ \in {1, 2} THEN @ + 1 ELSE @]
    /\ part' = [part EXCEPT ![t] = <<>>]
    /\ wokenBy' = [wokenBy EXCEPT ![t] = 0]
    /\ UNCHANGED <<shared, path, current_time, exit, lastHw, shadow, promise>>

\* thread t is at statement p next; what it wrote to wfile is w
Wrote(t, p, w) ==
    /\ pc' = [pc EXCEPT ![t] = p]
    /\ part' = [part EXCEPT ![t] = w]
    /\ UNCHANGED <<path, current_time, frame, stopSeen, promise, wokenBy>>

\* stream, lines 150-153: write the boundary, send the two headers and end
\* the headers (the blank line); an exception (the viewer is gone) is caught
\* at line 158 and ends the loop
WriteFrame(t) ==
    /\ pc[t] = "write"
    /\ \E ok \in BOOLEAN :
         IF ok
           THEN /\ Wrote(t, "write_body",
                         <<Chunk("--FRAME", <<>>),
                           Chunk("Content-Type", <<>>),
                           Chunk("Content-Length", <<len(frame[t])>>),
                           Chunk("blank", <<>>)>>)
                /\ UNCHANGED exit
           ELSE /\ Goto(t, "post_active")
                /\ exit' = [exit EXCEPT ![t] = "error"]
    /\ UNCHANGED <<shared, lastHw, shadow>>

\* the frame bytes taken from output.frame again, not from the local frame
WriteBody_reread(t) ==
    /\ pc[t] = "write_body"
    /\ \E ok \in BOOLEAN :
         IF ok
           THEN /\ Wrote(t, "active_check",
                         part[t] \o <<Chunk("frame", Frame(output_frame)),
                                      Chunk("CRLF", <<>>)>>)
                /\ UNCHANGED exit
           ELSE /\ Goto(t, "post_active")
                /\ exit' = [exit EXCEPT ![t] = "error"]
    /\ UNCHANGED <<shared, lastHw, shadow>>

\* stream, lines 154-155: write the frame, then CRLF; an exception is caught
\* at line 158 and ends the loop
WriteBody(t) ==
    /\ pc[t] = "write_body"
    /\ \E ok \in BOOLEAN :
         IF ok
           THEN /\ Wrote(t, "active_check",
                         part[t] \o <<Chunk("frame", Frame(frame[t])),
                                      Chunk("CRLF", <<>>)>>)
                /\ UNCHANGED exit
           ELSE /\ Goto(t, "post_active")
                /\ exit' = [exit EXCEPT ![t] = "error"]
    /\ UNCHANGED <<shared, lastHw, shadow>>

\* stream, lines 156-157: if not self.server.active_stream: break
ActiveCheck(t) ==
    /\ pc[t] = "active_check"
    /\ IF ~active_stream
         THEN /\ Goto(t, "post_active")
              /\ exit' = [exit EXCEPT ![t] = "stopped"]
         ELSE /\ Goto(t, "loop_check")
              /\ UNCHANGED exit
    /\ UNCHANGED <<shared, lastHw, shadow>>

\* create_still, lines 133-138: capture, save, send the file.  An exception
\* is not caught: it leaves wrap before the post-operation check and ends
\* the request.
CreateStill(t) ==
    /\ pc[t] = "capture"
    /\ \E ok \in BOOLEAN :
         IF ok
           THEN /\ Goto(t, "post_active")
                /\ UNCHANGED exit
           ELSE Return(t)
    /\ UNCHANGED <<shared, lastHw, shadow>>

\* wrap, line 107: not self.server.active_stream
PostActive(t) ==
    /\ pc[t] = "post_active"
    /\ Goto(t, IF ~active_stream THEN "post_stop" ELSE "post_time")
    /\ UNCHANGED <<shared, exit, lastHw, shadow>>

\* the expiry test with >= in place of >: a request finishing at the
\* deadline itself stops the camera
PostTime_ge(t) ==
    /\ pc[t] = "post_time"
    /\ IF now >= last_stream_time
         THEN /\ Goto(t, "post_stop")
              /\ UNCHANGED exit
         ELSE Return(t)
    /\ UNCHANGED <<shared, lastHw, shadow>>

\* wrap, line 108: or datetime.now() > self.server.last_stream_time
PostTime(t) ==
    /\ pc[t] = "post_time"
    /\ IF now > last_stream_time
         THEN /\ Goto(t, "post_stop")
              /\ UNCHANGED exit
         ELSE Return(t)
    /\ UNCHANGED <<shared, lastHw, shadow>>

\* wrap, line 110: stop_cam()
PostStop(t) ==
    /\ pc[t] = "post_stop"
    /\ stop_cam(t)
    /\ Goto(t, "post_clear")
    /\ UNCHANGED <<active_stream, last_stream_time, now, output_frame, exit,
                   shadow>>

\* wrap, lines 111-113: self.server.active_stream = False; return result
PostClear(t) ==
    /\ pc[t] = "post_clear"
    /\ active_stream' = FALSE
    /\ Return(t)
    /\ UNCHANGED <<last_stream_time, now, recording, output_frame, lastHw,
                   shadow>>

\* stop_stream, line 120: if self.server.active_stream
StopCheck(t) ==
    /\ pc[t] = "stop_check"
    /\ IF active_stream
         THEN /\ Goto(t, "stop_clear")
              /\ UNCHANGED exit
         ELSE Return(t)
    /\ UNCHANGED <<shared, lastHw, shadow>>

\* stop_stream, line 121: self.server.active_stream = False
StopClear(t) ==
    /\ pc[t] = "stop_clear"
    /\ active_stream' = FALSE
    /\ pc' = [pc EXCEPT ![t] = "stop_cam"]
    /\ stopSeen' = [u \in Threads |->
                      IF Streaming(u) /\ stopSeen[u] = 0 THEN 1
                                                         ELSE stopSeen[u]]
    /\ UNCHANGED <<last_stream_time, now, recording, output_frame, locals,
                   lastHw, shadow, promise, part, wokenBy>>

\* stop_stream, line 122: stop_cam()
StopCam(t) ==
    /\ pc[t] = "stop_cam"
    /\ stop_cam(t)
    /\ Return(t)
    /\ UNCHANGED <<active_stream, last_stream_time, now, output_frame, shadow>>

\* the clock advances
Tick ==
    /\ now < MaxTime
    /\ now' = now + 1
    /\ UNCHANGED <<active_stream, last_stream_time, recording, output_frame,
                   pc, locals, history>>

Next ==
    \/ \E t \in Handlers, p \in Paths : do_GET(t, p)
    \/ \E t \in Threads : WrapCheck(t)
    \/ \E t \in Threads : WrapStart(t)
    \/ \E t \in Threads : SetActive(t)
    \/ \E t \in Threads : ReadTime(t)
    \/ \E t \in Threads : WriteTime(t)
    \/ \E t \in Threads : LoopCheck(t)
    \/ Publish
    \/ \E t \in Threads : WaitReturn(t)
    \/ \E t \in Threads : WriteFrame(t)
    \/ \E t \in Threads : WriteBody(t)
    \/ \E t \in Threads : ActiveCheck(t)
    \/ \E t \in Threads : CreateStill(t)
    \/ \E t \in Threads : PostActive(t)
    \/ \E t \in Threads : PostTime(t)
    \/ \E t \in Threads : PostStop(t)
    \/ \E t \in Threads : PostClear(t)
    \/ \E t \in Threads : StopCheck(t)
    \/ \E t \in Threads : StopClear(t)
    \/ \E t \in Threads : StopCam(t)
    \/ Tick

Spec == Init /\ [][Next]_vars

\* The server with /stream and /update requests only, the /update requests
\* on further threads: NThreads sessions and NUpdaters updates at once.
NextUpdates ==
    \/ \E t \in Handlers : do_GET(t, "/stream")
    \/ \E t \in Updaters : do_GET(t, "/update")
    \/ \E t \in Threads : WrapCheck(t)
    \/ \E t \in Threads : WrapStart(t)
    \/ \E t \in Threads : SetActive(t)
    \/ \E t \in Threads : ReadTime(t)
    \/ \E t \in Threads : WriteTime(t)
    \/ \E t \in Threads : LoopCheck(t)
    \/ Publish
    \/ \E t \in Threads : WaitReturn(t)
    \/ \E t \in Threads : WriteFrame(t)
    \/ \E t \in Threads : WriteBody(t)
    \/ \E t \in Threads : ActiveCheck(t)
    \/ \E t \in Threads : PostActive(t)
    \/ \E t \in Threads : PostTime(t)
    \/ \E t \in Threads : PostStop(t)
    \/ \E t \in Threads : PostClear(t)
    \/ Tick

SpecUpdates == Init /\ [][NextUpdates]_vars

\* ---- steps the claims speak of ------------------------------------------

\* thread t executes the statement at p in this step
Steps(t, p) == pc[t] = p /\ pc'[t] # p

\* thread t issues the hardware start (start_cam) in this step
IssuesStart(t) == Steps(t, "start_cam")

\* thread t issues the hardware stop (stop_cam) in this step
IssuesStop(t) == Steps(t, "post_stop") \/ Steps(t, "stop_cam")

\* a viewer request past its activation and not yet at the post-check
Served(t) ==
    /\ path[t] \in {"/stream", "/cap"}
    /\ pc[t] \in LoopPcs \cup {"set_active", "read_time", "write_time", "capture"}

\* C1: no duplicate hardware start: start_cam is never issued while the last
\* hardware call was already a start (no stop since) and another /stream
\* request is being served, i.e. two request threads never both observe
\* active_stream = FALSE and both start the hardware.
C1_NoDuplicateStart ==
    [][\A t \in Threads :
         (path[t] = "/stream" /\ IssuesStart(t)) =>
           ~(/\ lastHw = [call |-> "start", by |-> "/stream"]
             /\ \E u \in Threads \ {t} :
                  path[u] = "/stream" /\ pc[u] \notin {"wrap_check", "start_cam"})]_vars

\* C2: the hardware stop is issued once: between one hardware start and the
\* next, no thread (an exiting session, the wrapper's post-check, /stop)
\* issues stop_cam when the last hardware call was already a stop.
C2_StopExactlyOnce ==
    [][\A t \in Threads :
         (path[t] \in {"/stream", "/stop"} /\ IssuesStop(t)) => lastHw.call # "stop"]_vars

\* C3: after a /stop is handled, a session that was streaming at that moment
\* returns from the frame wait at most once more: it does not go on (or
\* resume) streaming.
C3_StopEndsSessions ==
    \A t \in Threads : stopSeen[t] < 3

\* the deadline has passed for a session in its loop
Expired(t) == Streaming(t) /\ now > last_stream_time

\* C4: once the deadline has passed, a session's loop ends and the device is
\* deactivated.  Stated on a finite run: a session whose deadline has passed
\* (no /stop and no /update since it began streaming) is never left blocked
\* in the frame wait with the hardware stopped by another session and no
\* other request in progress, a state in which no thread can take a step and
\* no frame will come to wake the session.
C4_ExpiredSessionEnds ==
    \A t \in Threads :
      (/\ Expired(t) /\ pc[t] = "waiting"
       /\ stopSeen[t] = 0 /\ promise[t] = 0
       /\ \A u \in Threads \ {t} : pc[u] = "idle")
        => ~(lastHw = [call |-> "stop", by |-> "/stream"] /\ ~recording)

\* C5: whenever no /stream session and no /cap request is in progress, the
\* hardware device is stopped.
C5_OnOnlyWhileViewed ==
    (\A t \in Threads : path[t] \notin {"/stream", "/cap"}) => ~recording

\* C6: a /cap request that completes never stops a device that a stream
\* session requires: when a /cap thread issues stop_cam, no /stream session
\* is past its activation and still being served.
C6_CapKeepsStreamDevice ==
    [][\A t \in Threads :
         (path[t] = "/cap" /\ IssuesStop(t)) =>
           ~\E u \in Threads : path[u] = "/stream" /\ Served(u)]_vars

\* C7: an /update written while no stream is active has no effect on later
\* requests: every comparison of the clock with the deadline (line 146 of a
\* stream loop, line 108 of the wrapper) comes out as it would with the
\* deadline such updates had left alone (shadow).
C7_IdleUpdateNoEffect ==
    \A t \in Threads :
      /\ pc[t] = "loop_check" => ((now < last_stream_time) <=> (now < shadow))
      /\ pc[t] = "post_time" => ((now > last_stream_time) <=> (now > shadow))

\* C8: a session that was streaming when an /update set the deadline leaves
\* its loop before that deadline only through /stop or a write failure.
C8_UpdateKeepsSessions ==
    \A t \in Threads :
      (/\ path[t] = "/stream" /\ exit[t] \in {"expired", "stopped"}
       /\ promise[t] > 0 /\ stopSeen[t] = 0)
        => now >= promise[t]

\* C9: a session ended by a write failure issues no hardware stop while the
\* deadline has not passed: its post-check (line 107 or 108) goes on to
\* stop_cam only when the clock is past the deadline.
C9_WriteFailureEndsOnlyItself ==
    [][\A t \in Threads :
         (/\ exit[t] = "error"
          /\ pc[t] \in {"post_active", "post_time"} /\ pc'[t] = "post_stop")
           => now > last_stream_time]_vars

\* C10: broadcast delivery of the first frame.  The first publish wakes
\* every consumer blocked in the frame wait; while it is the only publish,
\* every return from the wait delivers that first frame to a consumer that
\* had none, and a consumer that has it is not woken again.
C10_BroadcastFirstFrame ==
    [][/\ (output_frame = 0 /\ output_frame' = 1) =>
            \A t \in Threads : pc[t] = "waiting" => pc'[t] = "woken"
       /\ output_frame = 1 =>
            \A t \in Threads :
              /\ (pc[t] = "woken" /\ pc'[t] = "write") =>
                    (frame[t] = 0 /\ frame'[t] = 1)
              /\ frame[t] = 1 => pc[t] # "woken"]_vars

\* two consumers have both received the first frame, the only one published
C10_Witness ==
    /\ output_frame = 1
    /\ \E t, u \in Threads : t # u /\ frame[t] = 1 /\ frame[u] = 1

\* C11: for each consumer the frames its successive frame waits return are
\* strictly later in publish order each time.  A blocked consumer is woken
\* only by a publish; a woken consumer has not yet had the frame in the
\* buffer; its wait returns the frame in the buffer at that moment (the
\* latest, whatever was published while it was not waiting), which is later
\* than the frame its previous wait returned.
C11_FramesInPublishOrder ==
    [][\A t \in Threads :
         /\ (pc[t] = "waiting" /\ pc'[t] = "woken") =>
               output_frame' = output_frame + 1
         /\ pc[t] = "woken" => output_frame > frame[t]
         /\ (pc[t] = "woken" /\ pc'[t] = "write") =>
               (frame'[t] = output_frame /\ frame'[t] > frame[t])]_vars

\* a consumer that was delivered frame 1 is woken by the publish of frame 2
C11_Witness ==
    \E t \in Threads : pc[t] = "woken" /\ frame[t] = 1 /\ output_frame = 2

\* C12: every part a /stream session writes is boundary, the two headers,
\* blank line, frame bytes, CRLF in this order; its Content-Length is the
\* byte length of the frame bytes written after the blank line, and those
\* bytes are the frame this iteration's wait captured, whatever the encoder
\* has published since.
C12_PartMatchesCapturedFrame ==
    \A t \in Threads :
      LET p == part[t]
          kinds == [i \in 1..Len(p) |-> p[i].kind]
      IN  /\ kinds \in {<<>>,
                        <<"--FRAME", "Content-Type", "Content-Length", "blank">>,
                        <<"--FRAME", "Content-Type", "Content-Length", "blank",
                          "frame", "CRLF">>}
          /\ Len(p) = 6 =>
                /\ p[3].value = <<Len(p[5].value)>>
                /\ p[5].value = Frame(frame[t])

\* a session has written the whole part of frame 1 after the encoder
\* published frame 2
C12_Witness ==
    \E t \in Threads :
      /\ Len(part[t]) = 6 /\ frame[t] = 1 /\ output_frame = 2
      /\ pc[t] = "active_check"

\* C13: /stop is idempotent: after one activation, however many /stop
\* requests follow, one after another or together, the hardware stop is
\* invoked by /stop at most once: no /stop thread issues stop_cam when the
\* last hardware call was already the stop_cam of a /stop.
C13_StopIdempotent ==
    [][\A t \in Threads :
         (path[t] = "/stop" /\ IssuesStop(t)) =>
           lastHw # [call |-> "stop", by |-> "/stop"]]_vars

\* thread t is at a hardware call: start_cam of line 103, stop_cam of line
\* 110 or of line 122
AtHardwareCall(t) == pc[t] \in {"start_cam", "post_stop", "stop_cam"}

\* C14: hardware start and stop calls are serialized: at most one thread is
\* executing start_cam or stop_cam at a time.
C14_HardwareCallsSerialized ==
    \A t, u \in Threads : (AtHardwareCall(t) /\ AtHardwareCall(u)) => t = u

\* C15: active_stream = TRUE implies that a hardware start was issued after
\* the most recent hardware stop: the flag is never true while the device is
\* stopped.  The wrapper's own deactivation in progress (stop_cam called at
\* line 110, the flag about to be cleared at line 111) is left out.
C15_ActiveImpliesStarted ==
    (active_stream /\ \A t \in Threads : pc[t] # "post_clear")
      => lastHw.call = "start"

\* the last hardware call was the start_cam of a /stream request and it
\* failed: the camera is not recording
StreamStartFailed == lastHw = [call |-> "start", by |-> "/stream"] /\ ~recording

\* C16: when the hardware start fails during the activation for a /stream
\* request, active_stream is left false, so that a later request finds the
\* device inactive and issues a new hardware start.
C16_FailedStartLeavesInactive ==
    StreamStartFailed => ~active_stream

\* C17: a /cap request ends with the post-operation expiry check whether the
\* capture succeeded or failed: when the last hardware call is the start_cam
\* of a /cap request, a /cap request returns only from the check of line
\* 108 or after the stop of lines 110-111.
C17_CapEndsWithExpiryCheck ==
    [][\A t \in Threads :
         (/\ path[t] = "/cap" /\ pc[t] # "idle" /\ pc'[t] = "idle"
          /\ lastHw = [call |-> "start", by |-> "/cap"])
           => pc[t] \in {"post_time", "post_clear"}]_vars

\* C18: no consumer starves.  Every publish wakes every consumer blocked in
\* the frame wait at that moment; a woken consumer's next step is its return
\* from the wait, and the frame it returns with is the publish that woke it
\* or a later one; a consumer waiting before any frame was published stays
\* blocked until the first publish.
C18_PublishWakesAllWaiters ==
    [][\A t \in Threads :
         /\ (output_frame' # output_frame /\ pc[t] = "waiting") =>
               (pc'[t] = "woken" /\ wokenBy'[t] = output_frame')
         /\ (pc[t] = "waiting" /\ output_frame = 0 /\ output_frame' = 0) =>
               pc'[t] = "waiting"
         /\ (pc[t] = "woken" /\ pc'[t] # "woken") =>
               (pc'[t] = "write" /\ frame'[t] >= wokenBy[t] /\ wokenBy[t] >= 1)]_vars

\* one consumer has returned from its wait with the second frame while
\* another, woken by the first publish, has yet to return
C18_Witness ==
    \E t, u \in Threads :
      /\ t # u
      /\ pc[t] = "write" /\ frame[t] = 2
      /\ pc[u] = "woken" /\ wokenBy[u] = 1 /\ frame[u] = 0

\* a stream is active and its deadline has not passed
ActiveUnexpired == active_stream /\ now <= last_stream_time

\* C19: a /cap request that runs while a stream is active and its deadline
\* has not passed invokes neither hardware start nor hardware stop and
\* leaves active_stream and the deadline unchanged.  Every step such a
\* request takes (the check of line 102, the capture, the checks of lines
\* 107 and 108) leads to its next statement or to its return, never to
\* start_cam or stop_cam, and changes nothing of the server or the camera.
C19_CapLeavesActiveStreamAlone ==
    [][\A t \in Threads :
         (/\ path[t] = "/cap"
          /\ pc[t] \in {"wrap_check", "capture", "post_active", "post_time"}
          /\ pc'[t] # pc[t]
          /\ ActiveUnexpired)
           => /\ pc'[t] \in {"capture", "post_active", "post_time", "idle"}
              /\ lastHw' = lastHw
              /\ UNCHANGED <<active_stream, last_stream_time, recording>>]_vars

\* a /cap request at the last check of the wrapper while a session is
\* streaming, the stream active and the deadline not passed
C19_Witness ==
    \E t, u \in Threads :
      /\ path[t] = "/cap" /\ pc[t] = "post_time"
      /\ Streaming(u) /\ recording
      /\ ActiveUnexpired

\* C20: the shared deadline never moves backwards: across any sequence and
\* interleaving of requests, no step lowers last_stream_time.
C20_DeadlineNeverMovesBack ==
    [][last_stream_time' >= last_stream_time]_vars

=============================================================================
